---- MODULE Spec2Model ----
(***************************************************************************)
(* TOSS intent processor (solana/programs/toss-intent-processor/src/lib.rs) *)
(* process_intent as a state machine: one action per step of the handler,   *)
(* the ledger calls it makes (advance_nonce_account, transfer) and the      *)
(* host's commit or rollback of the invocation.                            *)
(*                                                                         *)
(* Scaling: a Pubkey is one byte, a u64 is U64Bytes little-endian bytes of  *)
(* ByteBits bits each; the host timestamp is the signed integer of the same *)
(* width.                                                                  *)
(***************************************************************************)
EXTENDS Integers, Sequences, FiniteSets, TLC

VARIABLES
    lamports,        \* committed ledger: balance of every account
    nonceVal,        \* committed ledger: stored value of each initialized nonce account
    slot,            \* host: the current blockhash, one per slot
    unix_timestamp,  \* host: Clock::unix_timestamp (signed)
    pc,              \* position of the running invocation in process_intent
    accounts,        \* accounts: &[AccountInfo], as <<[key, is_signer]>>
    signature,       \* signature: &[u8; 64]
    intent_data,     \* intent_data: &[u8]
    intent,          \* <<>> until parsed, then <<SolanaIntent>>
    wlamports,       \* balances inside the running invocation
    wnonceVal,       \* nonce values inside the running invocation
    calls,           \* ledger calls issued by the running invocation, in order
    result,          \* "none" while running, then "Ok" or the ProgramError
    lastMsg,         \* the last msg! the invocation logged
    errAt,           \* the step that returned the error, "" if none did
    settled,         \* history: <<intent_data, signature>> of the committed settlements
    failed,          \* history: <<errAt, result>> of the latest invocation that returned an error
    encoded          \* <<>>, or <<the SolanaIntent the wallet encoded into intent_data>>

vars == <<lamports, nonceVal, slot, unix_timestamp, pc, accounts, signature,
          intent_data, intent, wlamports, wnonceVal, calls, result, lastMsg, errAt,
          settled, failed, encoded>>

----------------------------------------------------------------------------
(* Bounds and scaling *)

ByteBits == 3
U64Bytes == 2
InitBalance == 2
MaxSlot == 3

ByteBase == 2 ^ ByteBits
U64Mod == ByteBase ^ U64Bytes
U64Max == U64Mod - 1

----------------------------------------------------------------------------
(* Accounts of the ledger *)

SystemProgramId == 0   \* system_program::ID
Alice == 1             \* a wallet
Bob == 2               \* a wallet
Tok == 3               \* an initialized nonce account whose authority is Alice
BadOwnerTok == 4       \* a nonce-sized account owned by another program
ShortTok == 5          \* a system-owned account with too little data
OtherProgramId == 6
BlankTok == 7           \* a system-owned account of nonce size, never initialized

Keys ==
    {SystemProgramId, Alice, Bob, Tok, BadOwnerTok, ShortTok, OtherProgramId,
     BlankTok}

MinNonceLen == 48

\* AccountInfo.owner
Owner(k) == IF k = BadOwnerTok THEN OtherProgramId ELSE SystemProgramId

\* AccountInfo.data_len()
DataLen(k) ==
    CASE k = Tok -> MinNonceLen
      [] k = BadOwnerTok -> MinNonceLen
      [] k = ShortTok -> MinNonceLen - 1
      [] k = BlankTok -> MinNonceLen + 1
      [] OTHER -> 0

\* the authority stored in an initialized nonce account
NonceAuthority(k) == Alice

----------------------------------------------------------------------------
(* SolanaIntent and its borsh encoding *)

None == <<>>
Some(k) == <<k>>

\* u64::serialize with the most significant byte first
U64ToBytes_BigEndian(v) ==
    [i \in 1..U64Bytes |-> (v \div (ByteBase ^ (U64Bytes - i))) % ByteBase]

\* u64::serialize: little-endian bytes
U64ToBytes(v) == [i \in 1..U64Bytes |-> (v \div (ByteBase ^ (i - 1))) % ByteBase]

\* u64::deserialize
RECURSIVE BytesToU64(_)
BytesToU64(b) ==
    IF b = <<>> THEN 0 ELSE Head(b) + ByteBase * BytesToU64(Tail(b))

\* Option<Pubkey>::serialize: presence flag, then the value
OptionToBytes(o) == IF o = None THEN <<0>> ELSE <<1>> \o o

\* borsh::to_vec(&SolanaIntent): the fields in declaration order
IntentToBytes(i) ==
    <<i.from, i.to>> \o U64ToBytes(i.amount) \o U64ToBytes(i.nonce)
        \o U64ToBytes(i.expiry) \o OptionToBytes(i.nonce_account)
        \o OptionToBytes(i.nonce_auth)

\* Option<Pubkey>::deserialize at position p: [ok, value, next]
OptionFromBytes(b, p) ==
    IF p > Len(b) THEN [ok |-> FALSE, value |-> None, next |-> p]
    ELSE IF b[p] = 0 THEN [ok |-> TRUE, value |-> None, next |-> p + 1]
    ELSE IF b[p] = 1 /\ p + 1 <= Len(b)
         THEN [ok |-> TRUE, value |-> Some(b[p + 1]), next |-> p + 2]
    ELSE [ok |-> FALSE, value |-> None, next |-> p]

\* SolanaIntent::try_from_slice: <<>> on error, <<intent>> on success; every
\* byte must be consumed
TryFromSlice(b) ==
    LET fixed == 2 + 3 * U64Bytes
    IN  IF Len(b) < fixed THEN <<>>
        ELSE
          LET o1 == OptionFromBytes(b, fixed + 1)
              o2 == OptionFromBytes(b, o1.next)
          IN  IF ~o1.ok \/ ~o2.ok \/ o2.next # Len(b) + 1 THEN <<>>
              ELSE <<[from |-> b[1], to |-> b[2],
                      amount |-> BytesToU64(SubSeq(b, 3, 2 + U64Bytes)),
                      nonce |-> BytesToU64(SubSeq(b, 3 + U64Bytes, 2 + 2 * U64Bytes)),
                      expiry |-> BytesToU64(SubSeq(b, 3 + 2 * U64Bytes, fixed)),
                      nonce_account |-> o1.value,
                      nonce_auth |-> o2.value]>>

----------------------------------------------------------------------------
(* Ed25519: a signature is the pair it was made over *)

Sign(signer, message) == <<signer, message>>

Ed25519Verify(pubkey, message, sig) == sig = Sign(pubkey, message)

----------------------------------------------------------------------------
(* The ledger's system program, reached through invoke *)

\* system_instruction::transfer: the funding account must have signed and
\* hold the amount
SystemTransfer(lam, from, to, amount, fromIsSigner) ==
    IF fromIsSigner /\ lam[from] >= amount
    THEN [ok |-> TRUE,
          lamports |-> IF from = to THEN lam
                       ELSE [lam EXCEPT ![from] = @ - amount, ![to] = @ + amount]]
    ELSE [ok |-> FALSE, lamports |-> lam]

\* system_instruction::advance_nonce_account: the account must be an
\* initialized nonce account, its authority must have signed, and its stored
\* value must differ from the current blockhash; the stored value becomes the
\* current blockhash
AdvanceNonceAccount(nv, tok, auth, authIsSigner, blockhash) ==
    IF /\ tok \in DOMAIN nv
       /\ auth = NonceAuthority(tok)
       /\ authIsSigner
       /\ nv[tok] # blockhash
    THEN [ok |-> TRUE, nonceVal |-> [nv EXCEPT ![tok] = blockhash]]
    ELSE [ok |-> FALSE, nonceVal |-> nv]

Call(op, a, b, amount, ok) ==
    [op |-> op, a |-> a, b |-> b, amount |-> amount, ok |-> ok]

----------------------------------------------------------------------------
(* Inputs of an invocation *)

Account(k, s) == [key |-> k, is_signer |-> s]

\* the account list built from five choices, cut to n accounts
AccountList(s, ss, r, t, a, as, n) ==
    SubSeq(<<Account(s, ss), Account(r, FALSE), Account(SystemProgramId, FALSE),
             Account(t, FALSE), Account(a, as)>>, 1, n)

AccountLists ==
    {AccountList(s, ss, r, t, a, as, n) :
        s \in {Alice, Bob}, ss \in BOOLEAN, r \in {Alice, Bob},
        t \in {Tok, BadOwnerTok, ShortTok, BlankTok}, a \in {Alice, Bob},
        as \in BOOLEAN,
        n \in 0..5}

\* the (nonce_account, nonce_auth) pairs an intent may carry
NonceFields ==
    {<<None, None>>, <<Some(Tok), None>>, <<None, Some(Alice)>>,
     <<Some(Tok), Some(Alice)>>, <<Some(BadOwnerTok), Some(Alice)>>,
     <<Some(ShortTok), Some(Alice)>>, <<Some(BlankTok), Some(Alice)>>}

Intents ==
    {[from |-> Alice, to |-> Bob, amount |-> a, nonce |-> 1, expiry |-> e,
      nonce_account |-> nf[1], nonce_auth |-> nf[2]] :
        a \in {1, InitBalance}, e \in {0, 1}, nf \in NonceFields}

SampleIntent ==
    [from |-> Alice, to |-> Bob, amount |-> 1, nonce |-> 1, expiry |-> 1,
     nonce_account |-> None, nonce_auth |-> None]

\* byte strings that are no encoding of an intent: one cut short, one with a
\* trailing byte, one with a presence flag that is neither 0 nor 1
Malformed ==
    LET good == IntentToBytes(SampleIntent)
    IN  {SubSeq(good, 1, Len(good) - 1), good \o <<0>>,
         SubSeq(good, 1, Len(good) - 1) \o <<2>>}

IntentDatas == {IntentToBytes(i) : i \in Intents} \cup Malformed

Signatures(data) == {Sign(k, data) : k \in {Alice, Bob}}

----------------------------------------------------------------------------
(* State *)

Init ==
    /\ lamports = [k \in Keys |-> IF k = Alice THEN InitBalance ELSE 0]
    /\ nonceVal = [k \in {Tok} |-> 0]
    /\ slot = 1
    /\ unix_timestamp = -1
    /\ pc = "idle"
    /\ accounts = <<>>
    /\ signature = <<>>
    /\ intent_data = <<>>
    /\ intent = <<>>
    /\ wlamports = lamports
    /\ wnonceVal = nonceVal
    /\ calls = <<>>
    /\ result = "none"
    /\ lastMsg = ""
    /\ errAt = ""
    /\ settled = {}
    /\ failed = <<>>
    /\ encoded = <<>>

host == <<slot, unix_timestamp>>
committed == <<lamports, nonceVal>>
inputs == <<accounts, signature, intent_data, encoded>>
working == <<wlamports, wnonceVal, calls>>
history == <<settled, failed>>

\* a step that passes: on to the next one
Pass(next, msg) ==
    /\ pc' = next
    /\ lastMsg' = msg
    /\ UNCHANGED <<result, errAt>>

\* return Err(e)
Fail(e, msg) ==
    /\ pc' = "ret"
    /\ result' = e
    /\ lastMsg' = msg
    /\ errAt' = pc

sender == accounts[1]
recipient == accounts[2]
system_program == accounts[3]
nonce_account == accounts[4]
nonce_authority == accounts[5]

\* the host's slot and clock move on between invocations
Tick ==
    /\ pc = "idle"
    /\ slot < MaxSlot
    /\ slot' = slot + 1
    /\ unix_timestamp' = unix_timestamp + 1
    /\ UNCHANGED <<committed, inputs, intent, working, pc, result, lastMsg, errAt,
                   history>>

\* process_instruction routes a ProcessIntent instruction to process_intent
Invoke(accts, data, sig) ==
    /\ accounts' = accts
    /\ intent_data' = data
    /\ signature' = sig
    /\ pc' = "accounts"
    /\ intent' = <<>>
    /\ wlamports' = lamports
    /\ wnonceVal' = nonceVal
    /\ calls' = <<>>
    /\ result' = "none"
    /\ lastMsg' = " TOSS Intent Processor: Processing intent settlement"
    /\ errAt' = ""
    /\ UNCHANGED <<committed, host, history>>

\* an invocation with instruction data as it arrived
Begin(accts, data, sig) ==
    /\ Invoke(accts, data, sig)
    /\ encoded' = <<>>

\* any party submits any instruction
Submit ==
    /\ pc = "idle"
    /\ \E accts \in AccountLists, data \in IntentDatas :
         \E sig \in Signatures(data) : Begin(accts, data, sig)

\* a relayer submits an intent with the accounts it names, with or without
\* the nonce accounts
Relay ==
    /\ pc = "idle"
    /\ \E i \in Intents, n \in {3, 5} :
         \E sig \in Signatures(IntentToBytes(i)) :
            Begin(AccountList(Alice, TRUE, Bob, Tok, Alice, TRUE, n),
                  IntentToBytes(i), sig)

\* the ends of the u64 range, the first value of two bytes, and the two
\* values either side of the i64 sign bit
EdgeValues == {0, 1, ByteBase, U64Mod \div 2 - 1, U64Mod \div 2, U64Max}

\* the ends of the i64 range and the values around zero
EdgeTimes == {-(U64Mod \div 2), -(U64Mod \div 2) + 1, -1, 0, 1, U64Mod \div 2 - 1}

\* SolanaIntent values over the whole width of their fields
WideIntents ==
    {[from |-> f, to |-> t, amount |-> a, nonce |-> n, expiry |-> e,
      nonce_account |-> na, nonce_auth |-> nau] :
        f \in {Alice, Bob}, t \in {Alice, Bob}, a \in EdgeValues,
        n \in {1, U64Max}, e \in EdgeValues,
        na \in {None, Some(Tok)}, nau \in {None, Some(Alice)}}

\* a wallet encodes an intent, signs the bytes, and a relayer submits them
\* with the accounts the intent names
RelayEncoded ==
    /\ pc = "idle"
    /\ \E i \in WideIntents :
         /\ Invoke(AccountList(i.from, TRUE, i.to, Tok, Alice, TRUE, 5),
                   IntentToBytes(i), Sign(i.from, IntentToBytes(i)))
         /\ encoded' = <<i>>

\* the account lists of Probe: the sender has signed
ProbeLists ==
    {AccountList(s, TRUE, r, t, a, as, n) :
        s \in {Alice, Bob}, r \in {Alice, Bob},
        t \in {Tok, BadOwnerTok, ShortTok, BlankTok}, a \in {Alice, Bob},
        as \in BOOLEAN, n \in {2, 4, 5}}

\* a party holding Alice's signature submits any instruction
Probe ==
    /\ pc = "idle"
    /\ \E accts \in ProbeLists, data \in IntentDatas :
         Begin(accts, data, Sign(Alice, data))

----------------------------------------------------------------------------
(* process_intent, step by step *)
\* NextAccounts fetching one account too few
NextAccounts_OffByOne ==
    /\ pc = "accounts"
    /\ IF Len(accounts) < 2
       THEN Fail("NotEnoughAccountKeys", "")
       ELSE Pass("parse", "")
    /\ UNCHANGED <<committed, host, inputs, intent, working, history>>

\* let sender, recipient, system_program = next_account_info(account_iter)?
NextAccounts ==
    /\ pc = "accounts"
    /\ IF Len(accounts) < 3
       THEN Fail("NotEnoughAccountKeys", "")
       ELSE Pass("parse", "")
    /\ UNCHANGED <<committed, host, inputs, intent, working, history>>

\* SolanaIntent::try_from_slice(intent_data).map_err(InvalidInstructionData)?
ParseIntent ==
    /\ pc = "parse"
    /\ intent' = TryFromSlice(intent_data)
    /\ IF intent' = <<>>
       THEN Fail("InvalidInstructionData", "")
       ELSE Pass("verify", " Intent parsed")
    /\ UNCHANGED <<committed, host, inputs, working, history>>

\* verify_intent_signature: builds verify_data and returns Ok(()) without
\* verifying anything
verify_intent_signature(from, message, sig) == "Ok"

\* Step 1: verify_intent_signature(&intent.from, intent_data, signature)?
VerifySignature ==
    /\ pc = "verify"
    /\ LET r == verify_intent_signature(intent[1].from, intent_data, signature)
       IN  IF r # "Ok"
           THEN Fail(r, "")
           ELSE Pass("sender", " Signature verified")
    /\ UNCHANGED <<committed, host, inputs, intent, working, history>>
\* CheckSender without its comparison
CheckSender_Unchecked ==
    /\ pc = "sender"
    /\ Pass("recipient", " Signature verified")
    /\ UNCHANGED <<committed, host, inputs, intent, working, history>>

\* Step 2: if *sender.key != intent.from
CheckSender ==
    /\ pc = "sender"
    /\ IF sender.key # intent[1].from
       THEN Fail("InvalidAccountData", " Sender mismatch")
       ELSE Pass("recipient", " Signature verified")
    /\ UNCHANGED <<committed, host, inputs, intent, working, history>>
\* CheckRecipient without its comparison
CheckRecipient_Unchecked ==
    /\ pc = "recipient"
    /\ Pass("expiry", " Signature verified")
    /\ UNCHANGED <<committed, host, inputs, intent, working, history>>

\* Step 3: if *recipient.key != intent.to
CheckRecipient ==
    /\ pc = "recipient"
    /\ IF recipient.key # intent[1].to
       THEN Fail("InvalidAccountData", " Recipient mismatch")
       ELSE Pass("expiry", " Signature verified")
    /\ UNCHANGED <<committed, host, inputs, intent, working, history>>

\* clock.unix_timestamp as u64 with the value kept as it is
AsU64_Unchanged(t) == t

\* clock.unix_timestamp as u64: an i64 to u64 cast wraps
AsU64(t) == t % U64Mod

\* let current_time = clock.unix_timestamp as u64
current_time == AsU64(unix_timestamp)
\* CheckExpiry with the comparison turned round
CheckExpiry_Reversed ==
    /\ pc = "expiry"
    /\ IF current_time < intent[1].expiry
       THEN Fail("InvalidInstructionData", " Intent has expired")
       ELSE Pass("nonce", " Signature verified")
    /\ UNCHANGED <<committed, host, inputs, intent, working, history>>
\* CheckExpiry comparing with >= where the code has >
CheckExpiry_Inclusive ==
    /\ pc = "expiry"
    /\ IF current_time >= intent[1].expiry
       THEN Fail("InvalidInstructionData", " Intent has expired")
       ELSE Pass("nonce", " Signature verified")
    /\ UNCHANGED <<committed, host, inputs, intent, working, history>>

\* Step 4: if current_time > intent.expiry
CheckExpiry ==
    /\ pc = "expiry"
    /\ IF current_time > intent[1].expiry
       THEN Fail("InvalidInstructionData", " Intent has expired")
       ELSE Pass("nonce", " Signature verified")
    /\ UNCHANGED <<committed, host, inputs, intent, working, history>>

\* if let (Some(nonce_account_pubkey), Some(nonce_auth_pubkey)) = ...
IsDurable(i) == i.nonce_account # None /\ i.nonce_auth # None

\* NonceBranch with a record of the settled intents consulted on the path
\* without nonce accounts
NonceBranch_SettledRefused ==
    /\ pc = "nonce"
    /\ IF IsDurable(intent[1])
       THEN IF Len(accounts) < 5
            THEN Fail("NotEnoughAccountKeys", " Processing with durable nonce account")
            ELSE Pass("nonce_key", " Processing with durable nonce account")
       ELSE IF <<intent_data, signature>> \in settled
            THEN Fail("InvalidInstructionData", "  No durable nonce account, using standard nonce")
            ELSE Pass("transfer", "  No durable nonce account, using standard nonce")
    /\ UNCHANGED <<committed, host, inputs, intent, working, history>>

\* Step 5: the if let, and the two next_account_info calls of its body
NonceBranch ==
    /\ pc = "nonce"
    /\ IF IsDurable(intent[1])
       THEN IF Len(accounts) < 5
            THEN Fail("NotEnoughAccountKeys", " Processing with durable nonce account")
            ELSE Pass("nonce_key", " Processing with durable nonce account")
       ELSE Pass("transfer", "  No durable nonce account, using standard nonce")
    /\ UNCHANGED <<committed, host, inputs, intent, working, history>>
\* CheckNonceKey without its comparison
CheckNonceKey_Unchecked ==
    /\ pc = "nonce_key"
    /\ Pass("nonce_auth", " Processing with durable nonce account")
    /\ UNCHANGED <<committed, host, inputs, intent, working, history>>

\* if nonce_account.key != &nonce_account_pubkey
CheckNonceKey ==
    /\ pc = "nonce_key"
    /\ IF Some(nonce_account.key) # intent[1].nonce_account
       THEN Fail("InvalidAccountData", " Nonce account mismatch")
       ELSE Pass("nonce_auth", " Processing with durable nonce account")
    /\ UNCHANGED <<committed, host, inputs, intent, working, history>>

\* if nonce_authority.key != &nonce_auth_pubkey
CheckNonceAuthority ==
    /\ pc = "nonce_auth"
    /\ IF Some(nonce_authority.key) # intent[1].nonce_auth
       THEN Fail("InvalidAccountData", " Nonce authority mismatch")
       ELSE Pass("nonce_signer", " Processing with durable nonce account")
    /\ UNCHANGED <<committed, host, inputs, intent, working, history>>

\* if !nonce_authority.is_signer
CheckNonceSigner ==
    /\ pc = "nonce_signer"
    /\ IF ~nonce_authority.is_signer
       THEN Fail("MissingRequiredSignature", " Nonce authority must be a signer")
       ELSE Pass("validate", " Processing with durable nonce account")
    /\ UNCHANGED <<committed, host, inputs, intent, working, history>>
\* validate_nonce_account without its length check
validate_nonce_account_NoLength(acct) ==
    IF Owner(acct.key) # SystemProgramId
    THEN [err |-> "InvalidAccountData", msg |-> " Nonce account not owned by system program"]
    ELSE [err |-> "Ok", msg |-> " Nonce account structure is valid"]

\* validate_nonce_account: the owner, then the data length
validate_nonce_account(acct) ==
    IF Owner(acct.key) # SystemProgramId
    THEN [err |-> "InvalidAccountData", msg |-> " Nonce account not owned by system program"]
    ELSE IF DataLen(acct.key) < MinNonceLen
    THEN [err |-> "InvalidAccountData", msg |-> " Nonce account data is too short"]
    ELSE [err |-> "Ok", msg |-> " Nonce account structure is valid"]

\* validate_nonce_account(nonce_account)?
ValidateNonce ==
    /\ pc = "validate"
    /\ LET r == validate_nonce_account(nonce_account)
       IN  IF r.err # "Ok"
           THEN Fail(r.err, r.msg)
           ELSE Pass("advance", " Nonce account validated")
    /\ UNCHANGED <<committed, host, inputs, intent, working, history>>
\* AdvanceNonce with the result of invoke dropped (no ? on it)
AdvanceNonce_ErrorDropped ==
    /\ pc = "advance"
    /\ LET r == AdvanceNonceAccount(wnonceVal, nonce_account.key,
                    nonce_authority.key, nonce_authority.is_signer, slot)
       IN  /\ calls' = Append(calls, Call("advance", nonce_account.key,
                                           nonce_authority.key, 0, r.ok))
           /\ wnonceVal' = r.nonceVal
           /\ Pass("transfer", " Nonce advanced")
    /\ UNCHANGED <<committed, host, inputs, intent, wlamports, history>>

\* invoke(&advance_nonce_account(nonce_account.key, nonce_authority.key), ..)?
AdvanceNonce ==
    /\ pc = "advance"
    /\ LET r == AdvanceNonceAccount(wnonceVal, nonce_account.key,
                    nonce_authority.key, nonce_authority.is_signer, slot)
       IN  /\ calls' = Append(calls, Call("advance", nonce_account.key,
                                           nonce_authority.key, 0, r.ok))
           /\ wnonceVal' = r.nonceVal
           /\ IF ~r.ok
              THEN Fail("LedgerError", " Nonce account validated")
              ELSE Pass("transfer", " Nonce advanced")
    /\ UNCHANGED <<committed, host, inputs, intent, wlamports, history>>
\* ExecuteTransfer with the result of invoke dropped (no ? on it)
ExecuteTransfer_ErrorDropped ==
    /\ pc = "transfer"
    /\ LET r == SystemTransfer(wlamports, sender.key, recipient.key,
                               intent[1].amount, sender.is_signer)
       IN  /\ calls' = Append(calls, Call("transfer", sender.key, recipient.key,
                                           intent[1].amount, r.ok))
           /\ wlamports' = r.lamports
           /\ pc' = "ret"
           /\ result' = "Ok"
           /\ lastMsg' = " Intent settlement complete"
           /\ errAt' = ""
    /\ UNCHANGED <<committed, host, inputs, intent, wnonceVal, history>>

\* ExecuteTransfer with the nonce in place of the amount
ExecuteTransfer_WrongAmount ==
    /\ pc = "transfer"
    /\ LET r == SystemTransfer(wlamports, sender.key, recipient.key,
                               intent[1].nonce, sender.is_signer)
       IN  /\ calls' = Append(calls, Call("transfer", sender.key, recipient.key,
                                           intent[1].nonce, r.ok))
           /\ wlamports' = r.lamports
           /\ IF ~r.ok
              THEN Fail("LedgerError", " Executing transfer")
              ELSE /\ pc' = "ret"
                   /\ result' = "Ok"
                   /\ lastMsg' = " Intent settlement complete"
                   /\ errAt' = ""
    /\ UNCHANGED <<committed, host, inputs, intent, wnonceVal, history>>

\* Step 6: invoke(&transfer(sender.key, recipient.key, intent.amount), ..)?
\* and Ok(())
ExecuteTransfer ==
    /\ pc = "transfer"
    /\ LET r == SystemTransfer(wlamports, sender.key, recipient.key,
                               intent[1].amount, sender.is_signer)
       IN  /\ calls' = Append(calls, Call("transfer", sender.key, recipient.key,
                                           intent[1].amount, r.ok))
           /\ wlamports' = r.lamports
           /\ IF ~r.ok
              THEN Fail("LedgerError", " Executing transfer")
              ELSE /\ pc' = "ret"
                   /\ result' = "Ok"
                   /\ lastMsg' = " Intent settlement complete"
                   /\ errAt' = ""
    /\ UNCHANGED <<committed, host, inputs, intent, wnonceVal, history>>

\* the entrypoint returns to the host, which commits the invocation's ledger
\* changes when it returned Ok and drops them when it returned an error
HostCommit ==
    /\ pc = "ret"
    /\ pc' = "done"
    /\ IF result = "Ok"
       THEN /\ lamports' = wlamports
            /\ nonceVal' = wnonceVal
       ELSE UNCHANGED committed
    /\ UNCHANGED <<host, inputs, intent, working, result, lastMsg, errAt>>

Return ==
    /\ HostCommit
    /\ UNCHANGED history

\* Return, with the history of committed settlements kept
ReturnRecorded ==
    /\ HostCommit
    /\ settled' = IF result = "Ok" THEN settled \cup {<<intent_data, signature>>}
                  ELSE settled
    /\ UNCHANGED failed

\* Return, with the latest error kept
ReturnErrRecorded ==
    /\ HostCommit
    /\ failed' = IF result = "Ok" THEN failed ELSE <<errAt, result>>
    /\ UNCHANGED settled

\* nothing of an invocation outlives it: the next one starts afresh
Finish ==
    /\ pc = "done"
    /\ pc' = "idle"
    /\ accounts' = <<>> /\ signature' = <<>> /\ intent_data' = <<>>
    /\ encoded' = <<>>
    /\ intent' = <<>>
    /\ wlamports' = lamports
    /\ wnonceVal' = nonceVal
    /\ calls' = <<>>
    /\ result' = "none"
    /\ lastMsg' = ""
    /\ errAt' = ""
    /\ UNCHANGED <<committed, host, history>>

Steps ==
    \/ NextAccounts
    \/ ParseIntent
    \/ VerifySignature
    \/ CheckSender
    \/ CheckRecipient
    \/ CheckExpiry
    \/ NonceBranch
    \/ CheckNonceKey
    \/ CheckNonceAuthority
    \/ CheckNonceSigner
    \/ ValidateNonce
    \/ AdvanceNonce
    \/ ExecuteTransfer

Next ==
    \/ Tick
    \/ Submit
    \/ Steps
    \/ Return
    \/ Finish

Spec == Init /\ [][Next]_vars

NextReplay ==
    \/ Tick
    \/ Relay
    \/ Steps
    \/ ReturnRecorded
    \/ Finish

\* resubmission: the relayed intents, with the history of settlements
SpecReplay == Init /\ [][NextReplay]_vars

NextErrors ==
    \/ Tick
    \/ Probe
    \/ Steps
    \/ ReturnErrRecorded
    \/ Finish

\* the errors of successive invocations, with the latest error kept
SpecErrors == Init /\ [][NextErrors]_vars

\* the state after construction, at any time of the host's clock
InitWide ==
    /\ lamports = [k \in Keys |-> IF k = Alice THEN InitBalance ELSE 0]
    /\ nonceVal = [k \in {Tok} |-> 0]
    /\ slot = 1
    /\ unix_timestamp \in EdgeTimes
    /\ pc = "idle"
    /\ accounts = <<>>
    /\ signature = <<>>
    /\ intent_data = <<>>
    /\ intent = <<>>
    /\ wlamports = lamports
    /\ wnonceVal = nonceVal
    /\ calls = <<>>
    /\ result = "none"
    /\ lastMsg = ""
    /\ errAt = ""
    /\ settled = {}
    /\ failed = <<>>
    /\ encoded = <<>>

NextWide ==
    \/ RelayEncoded
    \/ Steps
    \/ Return
    \/ Finish

\* field values over their whole width, at the ends of the clock's range
SpecWide == InitWide /\ [][NextWide]_vars

----------------------------------------------------------------------------
(* Properties *)

Returned == pc \in {"ret", "done"}

Advances == {i \in 1..Len(calls) : calls[i].op = "advance"}
Transfers == {i \in 1..Len(calls) : calls[i].op = "transfer"}

ValidSignature == Ed25519Verify(intent[1].from, intent_data, signature)

C2_InvalidSignatureRejected ==
    (Returned /\ intent # <<>> /\ ~ValidSignature) => result # "Ok"

\* C3: a durable-nonce intent moves funds at most once: a submission of the
\* bytes and signature of an already committed durable settlement does not
\* settle again, issues no transfer, and if it reaches the advance call that
\* call fails and the failure is returned.
C3_DurableSettlesOnce ==
    (pc = "ret" /\ intent # <<>> /\ IsDurable(intent[1])
        /\ <<intent_data, signature>> \in settled) =>
        /\ result # "Ok"
        /\ Transfers = {}
        /\ \A i \in Advances : ~calls[i].ok /\ result = "LedgerError"

\* C4: an invocation is all-or-nothing on the committed ledger: nothing is
\* committed while it runs; when it returns an error (also when the transfer
\* failed after the advance succeeded) the committed balances and nonce
\* value stay as they were; when it returns Ok every call it issued
\* succeeded, the transfer and (in durable mode) the advance among them, and
\* their effects are committed together.
C4_AllOrNothing ==
    [][ /\ pc # "ret" => UNCHANGED committed
        /\ (pc = "ret" /\ result # "Ok") => UNCHANGED committed
        /\ (pc = "ret" /\ result = "Ok") =>
             /\ \A i \in 1..Len(calls) : calls[i].ok
             /\ Transfers # {}
             /\ IsDurable(intent[1]) => Advances # {}
             /\ lamports' = wlamports
             /\ nonceVal' = wnonceVal
        /\ (pc = "ret" /\ \E i \in 1..Len(calls) : ~calls[i].ok) => result # "Ok"
      ]_vars

\* the transfer failed after the advance succeeded: the invocation returned
\* an error and the committed nonce value is the one before the invocation
C4_Witness ==
    /\ pc = "done"
    /\ Len(calls) = 2
    /\ calls[1].op = "advance" /\ calls[1].ok
    /\ calls[2].op = "transfer" /\ ~calls[2].ok
    /\ result = "LedgerError"
    /\ wnonceVal # nonceVal
    /\ nonceVal[Tok] # slot

\* C5: a decodable, unexpired, correctly signed intent without durable-nonce
\* fields, presented with its sender, its recipient and the system account,
\* settles when the ledger accepts the transfer: the invocation returns Ok
\* having issued exactly one call, the transfer of intent.amount from
\* intent.from to intent.to.
C5_NonDurableSettles ==
    (/\ pc = "ret"
     /\ Len(accounts) >= 3
     /\ TryFromSlice(intent_data) # <<>>
     /\ LET i == TryFromSlice(intent_data)[1]
        IN  /\ i.nonce_account = None /\ i.nonce_auth = None
            /\ ~(current_time > i.expiry)
            /\ Ed25519Verify(i.from, intent_data, signature)
            /\ sender.key = i.from
            /\ recipient.key = i.to
            /\ system_program.key = SystemProgramId
            /\ SystemTransfer(lamports, i.from, i.to, i.amount, sender.is_signer).ok)
    => /\ result = "Ok"
       /\ LET i == TryFromSlice(intent_data)[1]
          IN  calls = <<Call("transfer", i.from, i.to, i.amount, TRUE)>>

\* a non-durable settlement of more than one unit was committed
C5_Witness ==
    /\ pc = "done"
    /\ result = "Ok"
    /\ intent # <<>>
    /\ intent[1].nonce_account = None /\ intent[1].nonce_auth = None
    /\ ValidSignature
    /\ intent[1].amount > 1
    /\ Len(calls) = 1
    /\ lamports[Bob] = intent[1].amount

\* C6 as stated: every intent with now > expiry, presented with the three
\* required accounts, fails with the error of the expiry check and issues no
\* transfer.
C6_ExpiredAlwaysExpiredError ==
    (/\ Returned
     /\ Len(accounts) >= 3
     /\ intent # <<>>
     /\ unix_timestamp >= 0
     /\ current_time > intent[1].expiry)
    => /\ errAt = "expiry"
       /\ result = "InvalidInstructionData"
       /\ Transfers = {}

\* C6 amended: every decodable intent with now > expiry fails and issues
\* neither an advance nor a transfer, whatever its signature; the error is
\* that of the expiry check when the three required accounts are supplied
\* and the sender and recipient accounts match the intent.
C6_ExpiredRejected ==
    (Returned /\ TryFromSlice(intent_data) # <<>>
        /\ current_time > TryFromSlice(intent_data)[1].expiry)
    => /\ result \notin {"none", "Ok"}
       /\ calls = <<>>
       /\ (/\ Len(accounts) >= 3
           /\ sender.key = intent[1].from
           /\ recipient.key = intent[1].to)
          => /\ errAt = "expiry"
             /\ result = "InvalidInstructionData"
             /\ lastMsg = " Intent has expired"

\* an expired intent with a signature that does not verify was rejected at
\* the expiry check, at a non-negative host time
C6_Witness ==
    /\ Returned
    /\ intent # <<>>
    /\ unix_timestamp > intent[1].expiry
    /\ ~ValidSignature
    /\ errAt = "expiry"

\* C7: an intent carrying exactly one of nonce_account and nonce_auth is
\* rejected: no invocation for it returns Ok (and so none settles a transfer).
C7_HalfDurableRejected ==
    (/\ Returned
     /\ intent # <<>>
     /\ (intent[1].nonce_account = None) # (intent[1].nonce_auth = None))
    => result # "Ok"

C10_IdentityMismatch ==
    (/\ Returned
     /\ Len(accounts) >= 3
     /\ TryFromSlice(intent_data) # <<>>
     /\ LET i == TryFromSlice(intent_data)[1]
        IN  sender.key # i.from \/ recipient.key # i.to)
    => /\ result = "InvalidAccountData"
       /\ errAt = (IF sender.key # intent[1].from THEN "sender" ELSE "recipient")
       /\ lastMsg = (IF sender.key # intent[1].from THEN " Sender mismatch"
                     ELSE " Recipient mismatch")
       /\ calls = <<>>

\* the recipient account differs from intent.to and the sender matches
C10_Witness ==
    /\ Returned
    /\ errAt = "recipient"
    /\ sender.key = intent[1].from
    /\ recipient.key # intent[1].to


PastExpiry ==
    \/ pc \in {"nonce", "nonce_key", "nonce_auth", "nonce_signer", "validate",
               "advance", "transfer"}
    \/ Returned /\ errAt \notin {"accounts", "parse", "verify", "sender", "recipient"}

\* C14: the expiry check rejects exactly when now > intent.expiry: an
\* invocation at now = intent.expiry passes it, and for an intent without
\* both nonce fields goes on to the transfer.
C14_ExpiryStrict ==
    PastExpiry =>
        /\ (errAt = "expiry") <=> (current_time > intent[1].expiry)
        /\ (Returned /\ current_time = intent[1].expiry /\ ~IsDurable(intent[1]))
              => Transfers # {}

\* an invocation at now = expiry settled
C14_Witness ==
    /\ pc = "ret"
    /\ result = "Ok"
    /\ unix_timestamp = intent[1].expiry

\* the step whose error is expected: the first that fails in the order
\* decode, authenticate, sender, recipient, expiry
ExpectedErrAt ==
    IF TryFromSlice(intent_data) = <<>> THEN "parse"
    ELSE LET i == TryFromSlice(intent_data)[1]
         IN  IF ~Ed25519Verify(i.from, intent_data, signature) THEN "verify"
             ELSE IF sender.key # i.from THEN "sender"
             ELSE IF recipient.key # i.to THEN "recipient"
             ELSE IF current_time > i.expiry THEN "expiry"
             ELSE ""

\* C15: with the three required accounts supplied, when one or more of the
\* decode, authenticate, identity and expiry steps would fail, the error
\* returned is that of the earliest of them.
C15_EarliestStepError ==
    (Returned /\ Len(accounts) >= 3 /\ ExpectedErrAt # "") =>
        errAt = ExpectedErrAt

\* C19: with fewer than three accounts the invocation returns
\* NotEnoughAccountKeys before the intent is decoded; with fewer than five
\* and an intent carrying both nonce fields it returns an error, which is
\* NotEnoughAccountKeys raised before any check on the nonce accounts when
\* the earlier checks pass; neither issues a ledger call.
C19_AccountShortage ==
    /\ (Len(accounts) < 3 /\ pc \notin {"idle", "accounts"}) =>
          /\ Returned
          /\ errAt = "accounts"
          /\ result = "NotEnoughAccountKeys"
          /\ intent = <<>>
          /\ calls = <<>>
    /\ (intent # <<>> /\ IsDurable(intent[1]) /\ Len(accounts) < 5) =>
          /\ pc \in {"verify", "sender", "recipient", "expiry", "nonce", "ret", "done"}
          /\ calls = <<>>
          /\ Returned =>
                /\ errAt \in {"sender", "recipient", "expiry", "nonce"}
                /\ result \notin {"none", "Ok"}
                /\ errAt = "nonce" => result = "NotEnoughAccountKeys"

\* four accounts for an intent that carries both nonce fields
C19_Witness ==
    /\ Returned
    /\ Len(accounts) = 4
    /\ errAt = "nonce"
    /\ result = "NotEnoughAccountKeys"


\* the nonce account has the shape validate_nonce_account asks for
WellShaped(k) == Owner(k) = SystemProgramId /\ DataLen(k) >= MinNonceLen

----------------------------------------------------------------------------
(* the error values of successive invocations *)

\* the four checks of the durable-nonce branch, in the order of the code
GuardSites == {"nonce_key", "nonce_auth", "nonce_signer", "validate"}

\* the first of the four checks the instruction's accounts do not pass, ""
\* when they pass all four
FirstFailingGuard ==
    IF Some(nonce_account.key) # intent[1].nonce_account THEN "nonce_key"
    ELSE IF Some(nonce_authority.key) # intent[1].nonce_auth THEN "nonce_auth"
    ELSE IF ~nonce_authority.is_signer THEN "nonce_signer"
    ELSE IF ~WellShaped(nonce_account.key) THEN "validate"
    ELSE ""

\* the checks run in the order key, authority, signer, shape; the first one
\* that fails ends the invocation; the advance is invoked only after all four
C11_GuardOrder ==
    /\ (Returned /\ errAt \in GuardSites) =>
          /\ errAt = FirstFailingGuard
          /\ calls = <<>>
    /\ (pc = "advance" \/ Advances # {} \/ (Returned /\ errAt = "advance")) =>
          FirstFailingGuard = ""

\* C11: the four checks of the durable-nonce branch run in the order token
\* key, authority key, authority is signer, token account shape, the first
\* failing check determines the error, no advance is invoked unless all
\* four pass, and two invocations that fail at different checks of the four
\* return different error values.
C11_GuardErrorsDistinct ==
    /\ C11_GuardOrder
    /\ (/\ pc = "ret"
        /\ errAt \in GuardSites
        /\ failed # <<>>
        /\ failed[1] \in GuardSites
        /\ failed[1] # errAt) => result # failed[2]

\* the failure kind of the taxonomy a step's error belongs to, "" for the
\* account shortage, which the taxonomy does not name
ErrorKind(site) ==
    CASE site = "parse" -> "Decode"
      [] site = "verify" -> "Auth"
      [] site \in {"sender", "recipient"} -> "IdentityMismatch"
      [] site = "expiry" -> "Expired"
      [] site = "nonce_key" -> "Replay.TokenMismatch"
      [] site = "nonce_auth" -> "Replay.AuthorityMismatch"
      [] site = "nonce_signer" -> "Replay.MissingAuthoritySignature"
      [] site = "validate" -> "Replay.MalformedToken"
      [] site \in {"advance", "transfer"} -> "LedgerCall"
      [] OTHER -> ""

\* C12: two invocations that fail with different failure kinds of the
\* taxonomy return different error values to the caller.
C12_FailureKindsDistinct ==
    (/\ pc = "ret"
     /\ result # "Ok"
     /\ failed # <<>>
     /\ ErrorKind(errAt) # ""
     /\ ErrorKind(failed[1]) # ""
     /\ ErrorKind(errAt) # ErrorKind(failed[1])) => result # failed[2]

----------------------------------------------------------------------------
(* resubmission of an intent without nonce accounts *)

\* C16: an intent without durable-nonce fields settles again when it is
\* resubmitted: an invocation with the bytes and signature of an already
\* committed settlement, at a time now <= expiry and with a sender balance
\* that covers the amount, returns Ok and issues the transfer again.
C16_NonDurableResettles ==
    (/\ pc = "ret"
     /\ <<intent_data, signature>> \in settled
     /\ intent # <<>>
     /\ intent[1].nonce_account = None /\ intent[1].nonce_auth = None
     /\ ~(current_time > intent[1].expiry)
     /\ SystemTransfer(lamports, intent[1].from, intent[1].to,
                       intent[1].amount, sender.is_signer).ok)
    => /\ result = "Ok"
       /\ calls = <<Call("transfer", intent[1].from, intent[1].to,
                         intent[1].amount, TRUE)>>

\* the second invocation with the same bytes and signature returned Ok, the
\* first settlement being committed already
C16_Witness ==
    /\ pc = "ret"
    /\ result = "Ok"
    /\ <<intent_data, signature>> \in settled
    /\ intent[1].nonce_account = None /\ intent[1].nonce_auth = None
    /\ lamports[Bob] = intent[1].amount
    /\ wlamports[Bob] = 2 * intent[1].amount

----------------------------------------------------------------------------
(* the encoding and the clock over the whole width *)

\* C17: decoding the encoding of an intent yields the field values that
\* were encoded, and encoding the decoded intent again yields the bytes that
\* were decoded.
C17_RoundTrip ==
    (encoded # <<>> /\ pc \notin {"idle", "accounts", "parse"}) =>
        /\ intent = encoded
        /\ IntentToBytes(intent[1]) = intent_data

\* an intent with values of more than one byte and both nonce fields was
\* encoded and decoded
C17_Witness ==
    /\ pc = "verify"
    /\ encoded # <<>>
    /\ intent = encoded
    /\ intent[1].amount = U64Max
    /\ intent[1].nonce = 1
    /\ intent[1].expiry = ByteBase
    /\ intent[1].nonce_account = Some(Tok) /\ intent[1].nonce_auth = Some(Alice)

\* the expiry decision on the host timestamp read as a 64-bit unsigned value
WrapExpired ==
    IF unix_timestamp >= 0
    THEN unix_timestamp > intent[1].expiry
    ELSE unix_timestamp + U64Mod > intent[1].expiry

\* C20: the expiry check compares the host timestamp converted to u64 by
\* wrap-around: a timestamp t >= 0 is past the expiry exactly when
\* t > expiry, a timestamp t < 0 exactly when t + 2^64 > expiry, so at a
\* negative timestamp every intent with expiry < 2^63 is rejected as expired
\* before any ledger call.
C20_TimestampWraps ==
    PastExpiry =>
        /\ (errAt = "expiry") <=> WrapExpired
        /\ (unix_timestamp < 0 /\ intent[1].expiry < U64Mod \div 2) =>
              /\ Returned
              /\ errAt = "expiry"
              /\ result = "InvalidInstructionData"
              /\ calls = <<>>

\* at the least timestamp the intent with the greatest expiry below 2^63
\* was rejected as expired
C20_Witness ==
    /\ pc = "ret"
    /\ errAt = "expiry"
    /\ unix_timestamp = -(U64Mod \div 2)
    /\ intent[1].expiry = U64Mod \div 2 - 1

====
